---- MODULE Spec2Model ----
(***************************************************************************)
(* Cortex chat (src/src/agent/cortex_chat.rs): the message store           *)
(* (CortexChatStore over the cortex_chat_messages table) and the chat      *)
(* session (CortexChatSession::send_message with its send_lock).           *)
(*                                                                         *)
(* Every .await of the source is a step boundary: callers interleave       *)
(* there, other writers of the shared store may insert there, and the      *)
(* database clock may advance there.                                       *)
(***************************************************************************)
EXTENDS Integers, Sequences, FiniteSets, TLC

\* ------------------------------------------------------------------ bounds
\* Rows the message log may hold.
MaxLog == 3
\* Largest value of the database clock (seconds).
MaxClock == 1
\* Rows written by writers other than the session.
MaxExternal == 1
\* Items of a timeline handed to a direct transcript load.
MaxItems == 5
\* Largest limit handed to load_history by a direct reader.
MaxLimit == 2

\* ------------------------------------------------------------ input sets
Callers == {"a", "b"}
Threads == {"t1", "t2"}
Responses == {"pong"}
EngineErrors == {"rate limited"}
ExternalRoles == {"system"}
ExternalTexts == {"note"}

\* Option<T>: None is the empty tuple, Some(x) the one-element tuple.
None == <<>>
Some(x) == <<x>>

\* The arguments callers hand to send_message.
RequestArgs ==
    { [thread_id |-> "t1", user_text |-> "hi", channel_context_id |-> None],
      [thread_id |-> "t2", user_text |-> "hi", channel_context_id |-> Some("chan")] }

\* The limit send_message passes to load_history.
HistoryLimit == 100

VARIABLES
    log,            \* cortex_chat_messages, in insertion (rowid) order
    writer,         \* per row of log: the request that wrote it, 0 for another writer,
                    \* -1 for a row older than the session
    clock,          \* the database's CURRENT_TIMESTAMP, in seconds
    send_lock,      \* the caller holding send_lock, or None
    waiters,        \* callers queued on send_lock, oldest first
    requests,       \* send_message calls that have written their user turn so far
    aborted,        \* the process has aborted
    pc,             \* per caller: where its send_message call stands
    args,           \* per caller: thread_id, user_text, channel_context_id
    request,        \* per caller: the number of its current call, once it has written
    saved_id,       \* per caller: the id save_message returned for the user turn
    system_prompt,  \* per caller: the assembled prompt
    chat_messages,  \* per caller: the rows load_history returned
    history,        \* per caller: the turns handed to the completion engine
    result,         \* per caller: what the completion engine returned
    ret,            \* per caller: what send_message returned
    timeline_failed,\* per caller: load_channel_timeline failed in this call
    loaded,         \* the last direct load_history call and its result
    latest,         \* the last direct latest_thread_id call and its result
    timeline,       \* the outcome of load_channel_timeline a direct transcript load sees
    rendered        \* the last direct load_channel_transcript call's result

storeVars == <<log, writer, clock>>
lockVars == <<send_lock, waiters>>
callVars == <<pc, args, request, saved_id, system_prompt, chat_messages, history, result, ret,
              timeline_failed>>
renderVars == <<timeline, rendered>>
readVars == <<loaded, latest, renderVars>>
vars == <<log, writer, clock, send_lock, waiters, requests, aborted, pc, args, request,
          saved_id, system_prompt, chat_messages, history, result, ret, timeline_failed,
          loaded, latest, timeline, rendered>>

\* ----------------------------------------------------------------- helpers
Min(a, b) == IF a <= b THEN a ELSE b

Reverse(s) == [i \in 1..Len(s) |-> s[Len(s) + 1 - i]]

Take(s, n) == SubSeq(s, 1, Min(n, Len(s)))

Range(s) == {s[i] : i \in 1..Len(s)}

Digits == <<"0", "1", "2", "3", "4", "5", "6", "7", "8", "9">>

\* Two decimal digits.
TwoDigits(n) == Digits[(n \div 10) + 1] \o Digits[(n % 10) + 1]

\* NaiveDateTime::and_utc().to_rfc3339() of second t of the epoch's first hour.
to_rfc3339(t) ==
    "1970-01-01T00:" \o TwoDigits(t \div 60) \o ":" \o TwoDigits(t % 60) \o "+00:00"

\* ChatMessageRow::into_message: every field kept, created_at formatted.
into_message(row) == [row EXCEPT !.created_at = to_rfc3339(row.created_at)]

\* Mutant of new_v4: the id of the first row is given again.
new_v4_repeating == IF log = <<>> THEN Len(log) + 1 ELSE log[1].id

\* uuid::Uuid::new_v4(): an id no row holds.
new_v4 == CHOOSE i \in 1..(Len(log) + 1) : \A k \in 1..Len(log) : log[k].id # i

\* ------------------------------------------------------------ message store
\* The rows of thread t.
ThreadRows(t) == {log[i] : i \in {k \in 1..Len(log) : log[k].thread_id = t}}

\* Every ordering of the rows S with created_at non-increasing.
RECURSIVE Descending(_)
Descending(S) ==
    IF S = {} THEN {<<>>}
    ELSE UNION { { <<r>> \o s : s \in Descending(S \ {r}) } :
                 r \in {x \in S : \A y \in S : y.created_at <= x.created_at} }

\* ORDER BY created_at DESC over the rows S: every ordering with created_at
\* non-increasing. The statement names no second key, so rows with equal
\* created_at come in whatever order the query plan yields. A row whose
\* created_at no other row shares has one place, the number of later rows
\* plus one; the rows that share theirs fill the other places in any of
\* their descending orders.
OrderByCreatedAtDesc(S) ==
    LET tied == {x \in S : \E y \in S \ {x} : y.created_at = x.created_at}
        place == [x \in S \ tied |->
                     Cardinality({y \in S : y.created_at > x.created_at}) + 1]
        single == [i \in {place[x] : x \in S \ tied} |->
                     CHOOSE x \in S \ tied : place[x] = i]
        shared == [i \in 1..Cardinality(S) |->
                     Cardinality({j \in 1..i : j \notin DOMAIN single})]
    IN  { [i \in 1..Cardinality(S) |->
             IF i \in DOMAIN single THEN single[i] ELSE t[shared[i]]] :
          t \in Descending(tied) }

\* LIMIT n: a negative limit is no limit.
Limit(s, n) == IF n < 0 THEN s ELSE Take(s, n)

\* CortexChatStore::load_history: the results the query may give, each
\* converted row by row and reversed.
load_history(thread_id, limit) ==
    { Reverse([i \in 1..Len(q) |-> into_message(q[i])]) :
        q \in { Limit(s, limit) : s \in OrderByCreatedAtDesc(ThreadRows(thread_id)) } }

\* Mutant of latest_thread_id: ORDER BY created_at ascending.
latest_thread_id_oldest_first ==
    IF Len(log) = 0 THEN {None}
    ELSE { Some(s[Len(s)].thread_id) : s \in OrderByCreatedAtDesc(Range(log)) }

\* CortexChatStore::latest_thread_id: the thread of the first row of
\* ORDER BY created_at DESC LIMIT 1, None on an empty table.
latest_thread_id ==
    IF Len(log) = 0 THEN {None}
    ELSE { Some(s[1].thread_id) : s \in OrderByCreatedAtDesc(Range(log)) }

\* The values the created_at column default may give the next row: the
\* database clock in seconds, not behind any earlier reading.
current_timestamp == {clock} \cup clock..MaxClock

\* The row save_message inserts: created_at is not bound, the column default
\* fills it.
new_row(now, thread_id, role, content, channel_context) ==
    [id |-> new_v4, thread_id |-> thread_id, role |-> role, content |-> content,
     channel_context |-> channel_context, created_at |-> now]

\* Rows written since the session was constructed: writer is -1 for a row the
\* table held before.
NewRows == Cardinality({i \in 1..Len(writer) : writer[i] >= 0})

\* CortexChatStore::save_message succeeding, on behalf of request w. The
\* database clock is read at the insert: it is not behind any earlier reading.
save_message(w, thread_id, role, content, channel_context) ==
    /\ NewRows < MaxLog
    /\ \E now \in current_timestamp :
          /\ clock' = now
          /\ log' = Append(log, new_row(now, thread_id, role, content, channel_context))
    /\ writer' = Append(writer, w)

\* The text of a storage failure (sqlx::Error) as the caller sees it.
StorageError == "sqlx::Error"

ExternalRows == Cardinality({i \in 1..Len(writer) : writer[i] = 0})

\* A direct save_message call by another user of the store.
DirectSave ==
    /\ ~aborted
    /\ \E t \in Threads, role \in ExternalRoles, content \in ExternalTexts :
          save_message(0, t, role, content, None)
    /\ UNCHANGED <<lockVars, requests, aborted, callVars, readVars>>

\* Another writer saves a message while the session serves its callers.
ExternalSave ==
    /\ ExternalRows < MaxExternal
    /\ DirectSave

\* A direct load_history call.
DirectLoadHistory ==
    /\ ~aborted
    /\ \E t \in Threads, n \in 0..MaxLimit :
         \E rows \in load_history(t, n) :
            loaded' = [called |-> TRUE, thread_id |-> t, limit |-> n,
                       at |-> Len(log), rows |-> rows]
    /\ UNCHANGED <<storeVars, lockVars, requests, aborted, callVars, latest, renderVars>>

\* A direct latest_thread_id call.
DirectLatestThreadId ==
    /\ ~aborted
    /\ \E r \in latest_thread_id :
            latest' = [called |-> TRUE, at |-> Len(log), result |-> r]
    /\ UNCHANGED <<storeVars, lockVars, requests, aborted, callVars, loaded, renderVars>>

\* --------------------------------------------------------- prompt assembly
\* The live configuration snapshots build_system_prompt may read.
RuntimeConfigs ==
    { [identity |-> "", memory_bulletin |-> "", browser_enabled |-> FALSE,
       web_search_enabled |-> FALSE, opencode_enabled |-> FALSE],
      [identity |-> "I am the cortex", memory_bulletin |-> "bulletin",
       browser_enabled |-> TRUE, web_search_enabled |-> TRUE, opencode_enabled |-> TRUE] }

\* TimelineItem values.
Message(role, content, sender_name) ==
    [type |-> "Message", role |-> role, content |-> content, sender_name |-> sender_name]
BranchRun(description, conclusion) ==
    [type |-> "BranchRun", description |-> description, conclusion |-> conclusion]
WorkerRun(task, res) ==
    [type |-> "WorkerRun", task |-> task, result |-> res]

\* The timelines load_channel_timeline may return.
Timelines ==
    { <<>>,
      << Message("user", "hello", Some("ann")), BranchRun("dig", Some("found")),
         WorkerRun("build", None) >> }

\* Mutant of render_item: a run is rendered whether or not it has an outcome.
render_item_unfiltered(item) ==
    CASE item.type = "Message" ->
            "**" \o (IF item.sender_name # None THEN item.sender_name[1] ELSE item.role)
                 \o "**: " \o item.content \o "\n\n"
      [] item.type = "BranchRun" ->
            "*[Branch: " \o item.description \o "]*: "
                \o (IF item.conclusion # None THEN item.conclusion[1] ELSE "") \o "\n\n"
      [] item.type = "WorkerRun" ->
            "*[Worker: " \o item.task \o "]*: "
                \o (IF item.result # None THEN item.result[1] ELSE "") \o "\n\n"

\* One item's line of the transcript, empty for a run with no outcome.
render_item(item) ==
    CASE item.type = "Message" ->
            "**" \o (IF item.sender_name # None THEN item.sender_name[1] ELSE item.role)
                 \o "**: " \o item.content \o "\n\n"
      [] item.type = "BranchRun" ->
            IF item.conclusion # None
            THEN "*[Branch: " \o item.description \o "]*: " \o item.conclusion[1] \o "\n\n"
            ELSE ""
      [] item.type = "WorkerRun" ->
            IF item.result # None
            THEN "*[Worker: " \o item.task \o "]*: " \o item.result[1] \o "\n\n"
            ELSE ""

RECURSIVE render_items(_)
render_items(items) ==
    IF items = <<>> THEN "" ELSE render_item(Head(items)) \o render_items(Tail(items))

\* CortexChatSession::load_channel_transcript on the timeline load's outcome:
\* [ok |-> TRUE, items |-> ...] or [ok |-> FALSE].
load_channel_transcript(outcome) ==
    IF outcome.ok /\ outcome.items # <<>> THEN Some(render_items(outcome.items))
    ELSE None

TimelineOutcomes ==
    { [ok |-> TRUE, items |-> tl] : tl \in Timelines } \cup { [ok |-> FALSE, items |-> <<>>] }

\* The items a timeline handed to a direct transcript load is made of.
TimelineItems ==
    { Message("user", "hello", Some("ann")), Message("assistant", "hi", None),
      BranchRun("dig", Some("found")), BranchRun("dig", None),
      WorkerRun("build", Some("done")), WorkerRun("build", None) }

\* The outcomes of load_channel_timeline a direct transcript load may see.
DirectTimelineOutcomes ==
    { [ok |-> TRUE, items |-> tl] :
        tl \in UNION { [1..n -> TimelineItems] : n \in 0..MaxItems } }
    \cup { [ok |-> FALSE, items |-> <<>>] }

NoTimeline == [ok |-> TRUE, items |-> <<>>]
NoRendered == [called |-> FALSE, value |-> None]

\* A direct load_channel_transcript call on the timeline load's outcome.
DirectLoadChannelTranscript ==
    /\ ~aborted
    /\ ~rendered.called
    /\ rendered' = [called |-> TRUE, value |-> load_channel_transcript(timeline)]
    /\ UNCHANGED <<storeVars, lockVars, requests, aborted, callVars, loaded, latest, timeline>>

empty_to_none(s) == IF s = "" THEN None ELSE Some(s)

\* render_worker_capabilities succeeding: the text is a function of the flags.
worker_capabilities(cfg) ==
    [browser |-> cfg.browser_enabled, web_search |-> cfg.web_search_enabled,
     opencode |-> cfg.opencode_enabled]

\* render_cortex_chat_prompt succeeding: the text is a function of its slots.
render_cortex_chat_prompt(identity, memory, transcript, capabilities) ==
    [identity_context |-> identity, memory_bulletin |-> memory,
     channel_transcript |-> transcript, worker_capabilities |-> capabilities]

\* CortexChatSession::build_system_prompt when both renderings succeed.
build_system_prompt(cfg, channel_context_id, outcome) ==
    render_cortex_chat_prompt(
        empty_to_none(cfg.identity),
        empty_to_none(cfg.memory_bulletin),
        IF channel_context_id # None THEN load_channel_transcript(outcome) ELSE None,
        worker_capabilities(cfg))

NoPrompt == render_cortex_chat_prompt(None, None, None,
                [browser |-> FALSE, web_search |-> FALSE, opencode |-> FALSE])

\* ------------------------------------------------------------ chat session
NoArgs == [thread_id |-> "", user_text |-> "", channel_context_id |-> None]
NoResult == [tag |-> "none", text |-> ""]
Ok(text) == [tag |-> "Ok", text |-> text]
Err(text) == [tag |-> "Err", text |-> text]

\* len().saturating_sub(1)
saturating_sub_1(n) == IF n = 0 THEN 0 ELSE n - 1

\* Mutant of history_rows: the last row is converted too.
history_rows_keeping_last(messages) == messages

\* The rows send_message converts: all but the last of what load_history gave.
history_rows(messages) == SubSeq(messages, 1, saturating_sub_1(Len(messages)))

\* Mutant of to_history: a row of any other role becomes a user turn.
RECURSIVE to_history_keeping_other_roles(_)
to_history_keeping_other_roles(rows) ==
    IF rows = <<>> THEN <<>>
    ELSE LET m == Head(rows)
         IN  << [role |-> IF m.role = "assistant" THEN "assistant" ELSE "user",
                 content |-> m.content] >> \o to_history_keeping_other_roles(Tail(rows))

\* The role match of send_message: a user row becomes a user text turn, an
\* assistant row an assistant turn, any other row nothing.
RECURSIVE to_history(_)
to_history(rows) ==
    IF rows = <<>> THEN <<>>
    ELSE LET m == Head(rows)
         IN  (IF m.role \in {"user", "assistant"}
              THEN << [role |-> m.role, content |-> m.content] >>
              ELSE <<>>) \o to_history(Tail(rows))

\* Mutant of error_text: the prefix is left out.
error_text_no_prefix(error) == error

\* format!("Cortex chat error: {error}")
error_text(error) == "Cortex chat error: " \o error

\* Mutant of lock_granted: the oldest waiter is let in while the lock is held.
lock_granted_while_held(p) == waiters # <<>> /\ Head(waiters) = p

\* tokio::sync::Mutex::lock resolves for caller p: the lock is free and p is
\* the oldest waiter.
lock_granted(p) == send_lock = None /\ waiters # <<>> /\ Head(waiters) = p

\* Mutant of Return: the guard is leaked when the call fails.
Return_leaking_on_failure(p, v) ==
    /\ pc' = [pc EXCEPT ![p] = "returned"]
    /\ ret' = [ret EXCEPT ![p] = v]
    /\ send_lock' = IF v.tag = "Err" THEN send_lock ELSE None
    /\ args' = [args EXCEPT ![p] = NoArgs]
    /\ saved_id' = [saved_id EXCEPT ![p] = 0]
    /\ chat_messages' = [chat_messages EXCEPT ![p] = <<>>]
    /\ history' = [history EXCEPT ![p] = <<>>]
    /\ result' = [result EXCEPT ![p] = NoResult]
    /\ timeline_failed' = [timeline_failed EXCEPT ![p] = FALSE]

\* send_message returns value v: _guard is dropped, which frees send_lock.
Return(p, v) ==
    /\ pc' = [pc EXCEPT ![p] = "returned"]
    /\ ret' = [ret EXCEPT ![p] = v]
    /\ send_lock' = None
    /\ args' = [args EXCEPT ![p] = NoArgs]
    /\ saved_id' = [saved_id EXCEPT ![p] = 0]
    /\ chat_messages' = [chat_messages EXCEPT ![p] = <<>>]
    /\ history' = [history EXCEPT ![p] = <<>>]
    /\ result' = [result EXCEPT ![p] = NoResult]
    /\ timeline_failed' = [timeline_failed EXCEPT ![p] = FALSE]

\* A caller calls send_message and waits for send_lock. Nothing reads the
\* call's arguments before the lock is granted: Lock binds them.
Call(p) ==
    /\ ~aborted
    /\ pc[p] \in {"idle", "returned"}
    /\ pc' = [pc EXCEPT ![p] = "lock"]
    /\ waiters' = Append(waiters, p)
    /\ request' = [request EXCEPT ![p] = 0]
    /\ ret' = [ret EXCEPT ![p] = NoResult]
    /\ UNCHANGED <<storeVars, send_lock, requests, aborted, args, saved_id,
                   system_prompt, chat_messages, history, result, timeline_failed, readVars>>

\* let _guard = self.send_lock.lock().await
Lock(p) ==
    /\ ~aborted
    /\ pc[p] = "lock"
    /\ lock_granted(p)
    /\ send_lock' = Some(p)
    /\ waiters' = Tail(waiters)
    /\ pc' = [pc EXCEPT ![p] = "save_user"]
    /\ \E a \in RequestArgs : args' = [args EXCEPT ![p] = a]
    /\ UNCHANGED <<storeVars, requests, aborted, request, saved_id, system_prompt, chat_messages,
                   history, result, ret, timeline_failed, readVars>>

\* Mutant of SaveUser: a failure to save the user turn is ignored.
SaveUser_ignoring_failure(p) ==
    /\ ~aborted
    /\ pc[p] = "save_user"
    /\ \/ /\ save_message(requests + 1, args[p].thread_id, "user", args[p].user_text,
                          args[p].channel_context_id)
          /\ requests' = requests + 1
          /\ request' = [request EXCEPT ![p] = requests + 1]
          /\ saved_id' = [saved_id EXCEPT ![p] = new_v4]
       \/ UNCHANGED <<storeVars, requests, request, saved_id>>
    /\ pc' = [pc EXCEPT ![p] = "build_prompt"]
    /\ UNCHANGED <<send_lock, ret, args, chat_messages, history, result, timeline_failed>>
    /\ UNCHANGED <<waiters, aborted, system_prompt, readVars>>

\* save_message(thread_id, "user", user_text, channel_context_id).await?
SaveUser(p) ==
    /\ ~aborted
    /\ pc[p] = "save_user"
    /\ \/ /\ save_message(requests + 1, args[p].thread_id, "user", args[p].user_text,
                          args[p].channel_context_id)
          /\ requests' = requests + 1
          /\ request' = [request EXCEPT ![p] = requests + 1]
          /\ saved_id' = [saved_id EXCEPT ![p] = new_v4]
          /\ pc' = [pc EXCEPT ![p] = "build_prompt"]
          /\ UNCHANGED <<send_lock, ret, args, chat_messages, history, result, timeline_failed>>
       \/ /\ Return(p, Err(StorageError))
          /\ UNCHANGED <<storeVars, requests, request>>
    /\ UNCHANGED <<waiters, aborted, system_prompt, readVars>>

\* Mutant of Panic: the unwinding call keeps _guard.
Panic_keeping_lock(p) ==
    \/ /\ pc' = [pc EXCEPT ![p] = "panicked"]
       /\ UNCHANGED <<send_lock, aborted>>
    \/ /\ aborted' = TRUE
       /\ UNCHANGED <<pc, send_lock>>

\* A rendering .expect() fails: the panic unwinds the call, dropping _guard,
\* or, in a build with panic = "abort", ends the process.
Panic(p) ==
    \/ /\ pc' = [pc EXCEPT ![p] = "panicked"]
       /\ send_lock' = None
       /\ UNCHANGED aborted
    \/ /\ aborted' = TRUE
       /\ UNCHANGED <<pc, send_lock>>

\* Mutant of BuildSystemPrompt: a failed timeline load fails the call.
BuildSystemPrompt_failing_on_timeline_error(p) ==
    /\ ~aborted
    /\ pc[p] = "build_prompt"
    /\ \/ /\ \E cfg \in RuntimeConfigs, outcome \in TimelineOutcomes :
                /\ outcome.ok \/ args[p].channel_context_id = None
                /\ system_prompt' = [system_prompt EXCEPT ![p] =
                       build_system_prompt(cfg, args[p].channel_context_id, outcome)]
          /\ pc' = [pc EXCEPT ![p] = "load_history"]
          /\ UNCHANGED <<send_lock, aborted, args, saved_id, chat_messages, history, result,
                         ret, timeline_failed>>
       \/ /\ args[p].channel_context_id # None
          /\ Return(p, Err("timeline"))
          /\ UNCHANGED <<aborted, system_prompt>>
    /\ UNCHANGED <<storeVars, waiters, requests, request, readVars>>

\* self.build_system_prompt(channel_context_id).await
BuildSystemPrompt(p) ==
    /\ ~aborted
    /\ pc[p] = "build_prompt"
    /\ \/ /\ \E cfg \in RuntimeConfigs, outcome \in TimelineOutcomes :
                /\ system_prompt' = [system_prompt EXCEPT ![p] =
                       build_system_prompt(cfg, args[p].channel_context_id, outcome)]
                /\ timeline_failed' = [timeline_failed EXCEPT ![p] =
                       args[p].channel_context_id # None /\ ~outcome.ok]
          /\ pc' = [pc EXCEPT ![p] = "load_history"]
          /\ UNCHANGED <<send_lock, aborted>>
       \/ /\ Panic(p)
          /\ UNCHANGED <<system_prompt, timeline_failed>>
    /\ UNCHANGED <<storeVars, waiters, requests, args, request, saved_id, chat_messages,
                   history, result, ret, readVars>>

\* self.store.load_history(thread_id, 100).await?, the conversion loop, and
\* the start of agent.prompt(user_text).with_history(&mut history): the agent
\* is built from system_prompt, which nothing reads afterwards.
LoadHistory(p) ==
    /\ ~aborted
    /\ pc[p] = "load_history"
    /\ \/ /\ \E messages \in load_history(args[p].thread_id, HistoryLimit) :
                /\ chat_messages' = [chat_messages EXCEPT ![p] = messages]
                /\ history' = [history EXCEPT ![p] = to_history(history_rows(messages))]
          /\ pc' = [pc EXCEPT ![p] = "invoke"]
          /\ UNCHANGED <<send_lock, ret, args, saved_id, result, timeline_failed>>
       \/ Return(p, Err(StorageError))
    /\ system_prompt' = [system_prompt EXCEPT ![p] = NoPrompt]
    /\ UNCHANGED <<storeVars, waiters, requests, aborted, request, readVars>>

\* Mutant of Invoke: a call waiting for the engine may time out, returning
\* a failure.
Invoke_with_timeout(p) ==
    /\ ~aborted
    /\ pc[p] = "invoke"
    /\ \/ /\ \/ \E r \in Responses : result' = [result EXCEPT ![p] = Ok(r)]
             \/ \E m \in EngineErrors : result' = [result EXCEPT ![p] = Err(m)]
          /\ pc' = [pc EXCEPT ![p] = "save_result"]
          /\ timeline_failed' = [timeline_failed EXCEPT ![p] = FALSE]
          /\ UNCHANGED <<send_lock, args, saved_id, chat_messages, history, ret>>
       \/ Return(p, Err("timeout"))
    /\ UNCHANGED <<storeVars, waiters, requests, aborted, request, system_prompt, readVars>>

\* The completion engine returns a response or a failure.
Invoke(p) ==
    /\ ~aborted
    /\ pc[p] = "invoke"
    /\ \/ \E r \in Responses : result' = [result EXCEPT ![p] = Ok(r)]
       \/ \E m \in EngineErrors : result' = [result EXCEPT ![p] = Err(m)]
    /\ pc' = [pc EXCEPT ![p] = "save_result"]
    /\ timeline_failed' = [timeline_failed EXCEPT ![p] = FALSE]
    /\ UNCHANGED <<storeVars, lockVars, requests, aborted, args, request, saved_id,
                   system_prompt, chat_messages, history, ret, readVars>>

\* Mutant of SaveResponse: the response is returned whether or not it was saved.
SaveResponse_ignoring_failure(p) ==
    /\ ~aborted
    /\ pc[p] = "save_result"
    /\ result[p].tag = "Ok"
    /\ \/ save_message(request[p], args[p].thread_id, "assistant", result[p].text,
                       args[p].channel_context_id)
       \/ UNCHANGED storeVars
    /\ Return(p, Ok(result[p].text))
    /\ UNCHANGED <<waiters, requests, aborted, request, system_prompt, readVars>>

\* Ok(response): save_message(thread_id, "assistant", &response, ..).await?; Ok(response)
SaveResponse(p) ==
    /\ ~aborted
    /\ pc[p] = "save_result"
    /\ result[p].tag = "Ok"
    /\ \/ /\ save_message(request[p], args[p].thread_id, "assistant", result[p].text,
                          args[p].channel_context_id)
          /\ Return(p, Ok(result[p].text))
       \/ /\ Return(p, Err(StorageError))
          /\ UNCHANGED storeVars
    /\ UNCHANGED <<waiters, requests, aborted, request, system_prompt, readVars>>

\* Mutant of SaveError: the failure is returned without being persisted.
SaveError_not_persisting(p) ==
    /\ ~aborted
    /\ pc[p] = "save_result"
    /\ result[p].tag = "Err"
    /\ Return(p, Err(error_text(result[p].text)))
    /\ UNCHANGED storeVars
    /\ UNCHANGED <<waiters, requests, aborted, request, system_prompt, readVars>>

\* Err(error): save_message(thread_id, "assistant", &error_text, ..).await?;
\* Err(anyhow!(error_text))
SaveError(p) ==
    /\ ~aborted
    /\ pc[p] = "save_result"
    /\ result[p].tag = "Err"
    /\ \/ /\ save_message(request[p], args[p].thread_id, "assistant",
                          error_text(result[p].text), args[p].channel_context_id)
          /\ Return(p, Err(error_text(result[p].text)))
       \/ /\ Return(p, Err(StorageError))
          /\ UNCHANGED storeVars
    /\ UNCHANGED <<waiters, requests, aborted, request, system_prompt, readVars>>

\* ----------------------------------------------------------- specifications
InitSession ==
    /\ log = <<>>
    /\ writer = <<>>
    /\ clock = 0
    /\ send_lock = None
    /\ waiters = <<>>
    /\ requests = 0
    /\ aborted = FALSE
    /\ pc = [p \in Callers |-> "idle"]
    /\ args = [p \in Callers |-> NoArgs]
    /\ request = [p \in Callers |-> 0]
    /\ saved_id = [p \in Callers |-> 0]
    /\ system_prompt = [p \in Callers |-> NoPrompt]
    /\ chat_messages = [p \in Callers |-> <<>>]
    /\ history = [p \in Callers |-> <<>>]
    /\ result = [p \in Callers |-> NoResult]
    /\ ret = [p \in Callers |-> NoResult]
    /\ timeline_failed = [p \in Callers |-> FALSE]
    /\ loaded = [called |-> FALSE, thread_id |-> "", limit |-> 0, at |-> 0, rows |-> <<>>]
    /\ latest = [called |-> FALSE, at |-> 0, result |-> None]

Init ==
    /\ InitSession
    /\ timeline = NoTimeline
    /\ rendered = NoRendered

Session(p) ==
    \/ Call(p)
    \/ Lock(p)
    \/ SaveUser(p)
    \/ BuildSystemPrompt(p)
    \/ LoadHistory(p)
    \/ Invoke(p)
    \/ SaveResponse(p)
    \/ SaveError(p)

\* The chat session with its callers, other writers of the store, the clock.
Next ==
    \/ \E p \in Callers : Session(p)
    \/ ExternalSave

Spec == Init /\ [][Next]_vars

\* The steps of a call once it is made: the lock's grant and every storage,
\* transcript and engine call returning.
Serve(p) ==
    \/ Lock(p)
    \/ SaveUser(p)
    \/ BuildSystemPrompt(p)
    \/ LoadHistory(p)
    \/ Invoke(p)
    \/ SaveResponse(p)
    \/ SaveError(p)

\* The session under a fair lock and collaborators that always return: a
\* call that can take its next step eventually takes it.
FairSpec == Init /\ [][Next]_vars /\ \A p \in Callers : WF_vars(Serve(p))

\* A step in which no storage call fails and no rendering panics.
CleanStep ==
    /\ ~aborted'
    /\ \A p \in Callers : pc'[p] # "panicked" /\ ret'[p] # Err(StorageError)

\* The session as the only writer of the store, with a store that does not
\* fail and templates that render.
CleanNext ==
    \E p \in Callers :
        \/ Call(p)
        \/ Lock(p)
        \/ SaveUser(p) /\ CleanStep
        \/ BuildSystemPrompt(p) /\ CleanStep
        \/ LoadHistory(p) /\ CleanStep
        \/ Invoke(p)
        \/ SaveResponse(p) /\ CleanStep
        \/ SaveError(p) /\ CleanStep

CleanSpec == Init /\ [][CleanNext]_vars

\* The store alone, used directly.
StoreNext ==
    \/ DirectSave
    \/ DirectLoadHistory
    \/ DirectLatestThreadId

StoreSpec == Init /\ [][StoreNext]_vars

\* One client of the session, other writers of the store, and a direct reader
\* of the latest thread: every operation on the message log.
LogNext ==
    \/ Session("a")
    \/ ExternalSave
    \/ DirectLatestThreadId

LogSpec == Init /\ [][LogNext]_vars

\* A thread that holds about HistoryLimit messages when the session starts:
\* prior rows 1..n of thread "t1", user and assistant turns alternating, one
\* per second, and the database clock at or past the last of them.
PriorCounts == {HistoryLimit - 1, HistoryLimit, HistoryLimit + 1}

PriorRow(i) ==
    [id |-> i, thread_id |-> "t1", role |-> IF i % 2 = 1 THEN "user" ELSE "assistant",
     content |-> "old", channel_context |-> None, created_at |-> i]

LongThreadInit ==
    /\ \E n \in PriorCounts :
          /\ log = [i \in 1..n |-> PriorRow(i)]
          /\ writer = [i \in 1..n |-> -1]
          /\ clock \in {n, n + 1}
    /\ send_lock = None
    /\ waiters = <<>>
    /\ requests = 0
    /\ aborted = FALSE
    /\ pc = [p \in Callers |-> "idle"]
    /\ args = [p \in Callers |-> NoArgs]
    /\ request = [p \in Callers |-> 0]
    /\ saved_id = [p \in Callers |-> 0]
    /\ system_prompt = [p \in Callers |-> NoPrompt]
    /\ chat_messages = [p \in Callers |-> <<>>]
    /\ history = [p \in Callers |-> <<>>]
    /\ result = [p \in Callers |-> NoResult]
    /\ ret = [p \in Callers |-> NoResult]
    /\ timeline_failed = [p \in Callers |-> FALSE]
    /\ loaded = [called |-> FALSE, thread_id |-> "", limit |-> 0, at |-> 0, rows |-> <<>>]
    /\ latest = [called |-> FALSE, at |-> 0, result |-> None]
    /\ timeline = NoTimeline
    /\ rendered = NoRendered

\* One client of the session on the long thread.
LongThreadNext == Session("a")

LongThreadSpec == LongThreadInit /\ [][LongThreadNext]_vars

\* load_channel_transcript alone, on every timeline outcome.
TranscriptInit ==
    /\ InitSession
    /\ timeline \in DirectTimelineOutcomes
    /\ rendered = NoRendered

TranscriptNext == DirectLoadChannelTranscript

TranscriptSpec == TranscriptInit /\ [][TranscriptNext]_vars

\* ------------------------------------------------------------------ claims
\* A call between acquiring send_lock and releasing it.
InCritical(p) == pc[p] \in {"save_user", "build_prompt", "load_history", "invoke", "save_result"}

\* C1: at most one send_message call is between acquiring send_lock and
\* releasing it, and that call is the one holding the lock.
C1_MutualExclusion ==
    /\ Cardinality({p \in Callers : InCritical(p)}) <= 1
    /\ \A p \in Callers : InCritical(p) => send_lock = Some(p)

\* One call waits for the completion engine while another is queued on the lock.
C1_Witness ==
    \E p, q \in Callers : p # q /\ pc[p] = "invoke" /\ pc[q] = "lock" /\ waiters = <<q>>

\* C2: the writes of two calls never interleave: along the log the rows of
\* the session's requests come request by request, and a call in flight is
\* the newest request to have written.
C2_NoInterleaving ==
    /\ \A i, j \in 1..Len(log) :
          (i < j /\ writer[i] # 0 /\ writer[j] # 0) => writer[i] <= writer[j]
    /\ \A p \in Callers : (InCritical(p) /\ request[p] # 0) => request[p] = requests

\* The first request wrote its user and assistant rows and returned, then
\* the second request, by the other caller, wrote its user row.
C2_Witness ==
    \E p, q \in Callers :
        /\ p # q
        /\ pc[p] = "returned" /\ request[p] = 1
        /\ InCritical(q) /\ request[q] = 2
        /\ \E i, j, k \in 1..Len(log) :
              /\ i < j /\ j < k
              /\ writer[i] = 1 /\ log[i].role = "user"
              /\ writer[j] = 1 /\ log[j].role = "assistant"
              /\ writer[k] = 2 /\ log[k].role = "user"

\* C3: the lock is released on every exit path: a caller whose call returned
\* does not hold it, and it is free whenever no call is in its critical section.
C3_LockReleased ==
    /\ \A p \in Callers : pc[p] \in {"returned", "panicked"} => send_lock # Some(p)
    /\ (\A p \in Callers : ~InCritical(p)) => send_lock = None

\* A call failed with a storage error after writing its user turn, and the
\* next call then acquired the lock and wrote.
C3_Witness ==
    \E p, q \in Callers :
        /\ p # q
        /\ pc[p] = "returned" /\ ret[p] = Err(StorageError) /\ request[p] = 1
        /\ InCritical(q) /\ request[q] = 2 /\ send_lock = Some(q)

\* The step appends exactly one row, with these fields, to the log.
AppendedOne(thread_id, role, content, channel_context) ==
    /\ Len(log') = Len(log) + 1
    /\ SubSeq(log', 1, Len(log)) = log
    /\ log'[Len(log')].thread_id = thread_id
    /\ log'[Len(log')].role = role
    /\ log'[Len(log')].content = content
    /\ log'[Len(log')].channel_context = channel_context

\* C4, as claimed: the user turn of every request that returned a failure is
\* followed in its thread by an assistant entry of that request.
C4_NoHoleAfterFailure ==
    \A i \in 1..Len(log) :
        (/\ writer[i] # 0
         /\ log[i].role = "user"
         /\ \E p \in Callers :
               request[p] = writer[i] /\ pc[p] = "returned" /\ ret[p].tag = "Err")
        => \E j \in 1..Len(log) :
              /\ i < j
              /\ writer[j] = writer[i]
              /\ log[j].role = "assistant"
              /\ log[j].thread_id = log[i].thread_id

\* C4, amended: a call that returned a completion-engine failure left, after
\* its user turn and in the same thread, an assistant entry holding the
\* failure text; a call that returned a storage failure left no assistant entry.
C4_EngineFailureLeavesEntry ==
    \A p \in Callers :
        (pc[p] = "returned" /\ ret[p].tag = "Err") =>
            IF ret[p].text = StorageError
            THEN \A j \in 1..Len(log) :
                    (request[p] # 0 /\ writer[j] = request[p]) => log[j].role = "user"
            ELSE /\ request[p] # 0
                 /\ \E i, j \in 1..Len(log) :
                       /\ i < j
                       /\ writer[i] = request[p] /\ log[i].role = "user"
                       /\ writer[j] = request[p] /\ log[j].role = "assistant"
                       /\ log[j].thread_id = log[i].thread_id
                       /\ log[j].content = ret[p].text

\* A call returned the completion engine's failure.
C4_Witness ==
    \E p \in Callers :
        pc[p] = "returned" /\ ret[p].tag = "Err" /\ ret[p].text # StorageError

\* The step in which a call whose completion engine failed returns.
EngineFailureReturns(p) ==
    pc[p] = "save_result" /\ result[p].tag = "Err" /\ pc'[p] = "returned"

\* The step persists the failure of p's completion engine and returns it.
ErrorPersistedAndReturned(p) ==
    /\ AppendedOne(args[p].thread_id, "assistant",
                   "Cortex chat error: " \o result[p].text, args[p].channel_context_id)
    /\ ret'[p] = Err("Cortex chat error: " \o result[p].text)

\* C5, as claimed: on every completion-engine failure with message m the call
\* appends one assistant row "Cortex chat error: m" with the request's
\* channel context and returns a failure with that text.
C5_EveryEngineFailurePersisted ==
    [][\A p \in Callers : EngineFailureReturns(p) => ErrorPersistedAndReturned(p)]_vars

\* C5, amended: it does so unless saving that row fails, and then it appends
\* nothing and returns the storage failure; it never returns success.
C5_EngineFailurePersistedOrStorageError ==
    [][\A p \in Callers :
          EngineFailureReturns(p) =>
              \/ ErrorPersistedAndReturned(p)
              \/ log' = log /\ ret'[p] = Err(StorageError)]_vars

\* A call returned "Cortex chat error: rate limited" and its thread holds the
\* assistant row with that content and the call's channel context.
C5_Witness ==
    \E p \in Callers :
        /\ pc[p] = "returned"
        /\ ret[p] = Err("Cortex chat error: rate limited")
        /\ \E j \in 1..Len(log) :
              /\ writer[j] = request[p]
              /\ log[j] = [id |-> log[j].id, thread_id |-> "t2", role |-> "assistant",
                           content |-> "Cortex chat error: rate limited",
                           channel_context |-> Some("chan"),
                           created_at |-> log[j].created_at]

\* C6: a call leaves the save of its user turn either with the user row
\* appended, going on to build the prompt, or with the log unchanged,
\* returning the storage failure with no prompt built, no history loaded and
\* no engine result.
C6_UserSaveFailureAborts ==
    [][\A p \in Callers :
          (pc[p] = "save_user" /\ pc'[p] # "save_user") =>
              \/ /\ AppendedOne(args[p].thread_id, "user", args[p].user_text,
                                args[p].channel_context_id)
                 /\ pc'[p] = "build_prompt"
              \/ /\ log' = log
                 /\ pc'[p] = "returned"
                 /\ ret'[p] = Err(StorageError)
                 /\ system_prompt'[p] = NoPrompt
                 /\ chat_messages'[p] = <<>>
                 /\ history'[p] = <<>>
                 /\ result'[p] = NoResult]_vars

\* A call returned the storage failure without having written, on a log that
\* holds earlier rows.
C6_Witness ==
    \E p \in Callers :
        /\ pc[p] = "returned" /\ ret[p] = Err(StorageError) /\ request[p] = 0
        /\ Len(log) > 0

\* The loaded messages other than the one with this id.
Without(messages, id) == SelectSeq(messages, LAMBDA m : m.id # id)

\* C7, as claimed: the history handed to the completion engine is the
\* conversion of every loaded row but the inbound user turn the call saved.
C7_HistoryExcludesInbound ==
    \A p \in Callers :
        pc[p] = "invoke" =>
            history[p] = to_history(Without(chat_messages[p], saved_id[p]))

\* The rows of thread t among the first n rows of the log, in insertion order.
ThreadPrefix(t, n) == SelectSeq(SubSeq(log, 1, n), LAMBDA r : r.thread_id = t)

\* The last n elements of s.
LastN(s, n) == SubSeq(s, Len(s) - n + 1, Len(s))

\* C8, as claimed: load_history(thread_id, N) returns the last min(N, count)
\* messages of the thread in insertion order (which is non-decreasing in
\* created_at, without duplicates, and keeps colliding timestamps in
\* insertion order).
C8_LoadHistoryLastN ==
    loaded.called =>
        LET s == ThreadPrefix(loaded.thread_id, loaded.at)
            n == Min(loaded.limit, Len(s))
        IN  loaded.rows = [i \in 1..n |-> into_message(LastN(s, n)[i])]

\* C9: latest_thread_id returns nothing exactly on an empty log, and
\* otherwise the thread of a row whose created_at is the maximum of the log.
C9_LatestThread ==
    latest.called =>
        IF latest.at = 0 THEN latest.result = None
        ELSE \E i \in 1..latest.at :
                /\ latest.result = Some(log[i].thread_id)
                /\ \A k \in 1..latest.at : log[k].created_at <= log[i].created_at

\* latest_thread_id answered with the thread of a newer row while an older
\* row of the other thread was in the log.
C9_Witness ==
    /\ latest.called
    /\ \E i, k \in 1..latest.at :
          /\ log[i].thread_id # log[k].thread_id
          /\ log[i].created_at < log[k].created_at
          /\ latest.result = Some(log[k].thread_id)

\* C10: a call returns success only in the step that appends the assistant
\* row holding the engine's response, with the request's thread and channel
\* context, and returns that response; when the engine succeeded, the call
\* ends either so or, the log unchanged, with the storage failure.
C10_SuccessOnlyAfterPersist ==
    [][\A p \in Callers :
          /\ (pc[p] # "returned" /\ pc'[p] = "returned" /\ ret'[p].tag = "Ok") =>
                /\ pc[p] = "save_result" /\ result[p].tag = "Ok"
                /\ ret'[p] = Ok(result[p].text)
                /\ AppendedOne(args[p].thread_id, "assistant", result[p].text,
                               args[p].channel_context_id)
          /\ (pc[p] = "save_result" /\ result[p].tag = "Ok" /\ pc'[p] = "returned") =>
                \/ ret'[p] = Ok(result[p].text)
                \/ log' = log /\ ret'[p] = Err(StorageError)]_vars

\* A call returned "pong" and the log ends with its assistant row "pong".
C10_Witness ==
    \E p \in Callers :
        /\ pc[p] = "returned" /\ ret[p] = Ok("pong") /\ request[p] # 0
        /\ Len(log) > 1
        /\ writer[Len(log)] = request[p]
        /\ log[Len(log)].role = "assistant"
        /\ log[Len(log)].content = "pong"
        /\ writer[Len(log) - 1] = request[p]
        /\ log[Len(log) - 1].role = "user"
        /\ log[Len(log) - 1].channel_context = log[Len(log)].channel_context

\* Whether load_channel_transcript is to show the item: every message, and a
\* run whose outcome is populated.
Shown(item) ==
    \/ item.type = "Message"
    \/ item.type = "BranchRun" /\ item.conclusion # None
    \/ item.type = "WorkerRun" /\ item.result # None

\* The line a shown item is to give, without its line break.
Line(item) ==
    CASE item.type = "Message" /\ item.sender_name # None ->
            "**" \o item.sender_name[1] \o "**: " \o item.content
      [] item.type = "Message" /\ item.sender_name = None ->
            "**" \o item.role \o "**: " \o item.content
      [] item.type = "BranchRun" ->
            "*[Branch: " \o item.description \o "]*: " \o item.conclusion[1]
      [] item.type = "WorkerRun" ->
            "*[Worker: " \o item.task \o "]*: " \o item.result[1]

\* The lines of the transcript of a timeline: one per shown item, in order.
Lines(items) ==
    LET shown == SelectSeq(items, Shown)
    IN  [i \in 1..Len(shown) |-> Line(shown[i])]

\* A text made of the lines, each ended by a blank line.
RECURSIVE Text(_)
Text(lines) == IF lines = <<>> THEN "" ELSE Head(lines) \o "\n\n" \o Text(Tail(lines))

\* Three messages, one concluded and one unconcluded branch run.
ExampleTimeline ==
    << Message("user", "hello", Some("ann")), BranchRun("dig", None),
       Message("assistant", "hi", None), BranchRun("dig", Some("found")),
       Message("user", "hello", Some("ann")) >>

\* C11: the transcript load_channel_transcript gives for a timeline with
\* items is the text of one line per message (under the sender's display
\* name, or the role when there is none) and one per branch or worker run
\* whose outcome is populated, in timeline order, with nothing for a run
\* without outcome.
C11_TranscriptLines ==
    (rendered.called /\ timeline.ok /\ timeline.items # <<>>)
        => rendered.value = Some(Text(Lines(timeline.items)))

C11_Witness ==
    /\ rendered.called
    /\ timeline = [ok |-> TRUE, items |-> ExampleTimeline]
    /\ Len(Lines(timeline.items)) = 4
    /\ rendered.value =
          Some("**ann**: hello\n\n**assistant**: hi\n\n*[Branch: dig]*: found\n\n**ann**: hello\n\n")

\* C12: load_channel_transcript returns nothing when the timeline has no
\* items and when none of its items is shown.
C12_NothingWhenAllFiltered ==
    (rendered.called /\ timeline.ok /\ \A i \in 1..Len(timeline.items) : ~Shown(timeline.items[i]))
        => rendered.value = None

\* C13: a failed timeline load never fails the call. Prompt assembly never
\* ends the call with a returned value, and when the timeline load failed the
\* prompt is assembled with no transcript and the call goes on to load the
\* history and invoke the engine.
C13_TimelineFailureTolerated ==
    [][\A p \in Callers :
          pc[p] = "build_prompt" =>
             /\ pc'[p] # "returned"
             /\ ret'[p] = NoResult
             /\ timeline_failed'[p] =>
                   /\ pc'[p] = "load_history"
                   /\ system_prompt'[p].channel_transcript = None]_vars

C13_Witness ==
    \E p \in Callers :
        /\ pc[p] = "invoke"
        /\ timeline_failed[p]
        /\ args[p].channel_context_id # None

\* C14: the message log is append-only. No step changes or removes a row
\* written before; a step adds at most one row, and a step in which
\* save_message succeeds adds exactly one, whose id no earlier row holds; a
\* load_history or latest_thread_id call adds no row.
C14_AppendOnly ==
    [][/\ Len(log') \in {Len(log), Len(log) + 1}
       /\ SubSeq(log', 1, Len(log)) = log
       /\ Len(log') = Len(log) + 1 =>
             \A k \in 1..Len(log) : log[k].id # log'[Len(log')].id
       /\ Len(writer') = Len(writer) + 1 => Len(log') = Len(log) + 1
       /\ (\E p \in Callers : pc[p] = "save_user" /\ pc'[p] = "build_prompt") =>
             Len(log') = Len(log) + 1
       /\ (\E p \in Callers : pc[p] = "load_history" /\ pc'[p] # "load_history") =>
             log' = log
       /\ latest' # latest => log' = log]_vars

C14_Witness ==
    /\ latest.called
    /\ latest.at >= 1
    /\ Len(log) > latest.at
    /\ \E p \in Callers : pc[p] = "invoke" /\ Len(chat_messages[p]) >= 2

\* The messages of the call's thread other than the inbound turn.
PriorMessages(p) == Cardinality(ThreadRows(args[p].thread_id)) - 1

\* The row of the log with the given id.
RowById(id) == log[CHOOSE k \in 1..Len(log) : log[k].id = id]

\* C15 as stated: the engine is given the up to HistoryLimit most recent
\* messages other than the inbound turn, so HistoryLimit of them on a thread
\* that holds that many prior messages.
C15_HundredPriorMessages ==
    \A p \in Callers :
        pc[p] = "invoke" => Len(history[p]) = Min(HistoryLimit, PriorMessages(p))

\* C15, amended: load_history gives the up to HistoryLimit most recent rows
\* of the thread in chronological order, the inbound turn among them, and
\* the engine is given all of them but the last: HistoryLimit - 1 messages,
\* not HistoryLimit, on a thread that holds HistoryLimit or more prior ones.
C15_AllButLastOfHundred ==
    \A p \in Callers :
        pc[p] = "invoke" =>
            LET rows == chat_messages[p]
                thread == {k \in 1..Len(log) : log[k].thread_id = args[p].thread_id}
                ids == {rows[i].id : i \in 1..Len(rows)}
                at == [i \in 1..Len(rows) |-> RowById(rows[i].id).created_at]
            IN  /\ Len(rows) = Min(HistoryLimit, Cardinality(thread))
                /\ Cardinality(ids) = Len(rows)
                /\ ids \subseteq {log[k].id : k \in thread}
                /\ \A k \in thread : log[k].id \notin ids => log[k].created_at <= at[1]
                /\ \A i \in 1..(Len(rows) - 1) : at[i] <= at[i + 1]
                /\ Len(history[p]) = Min(HistoryLimit - 1, PriorMessages(p))
                /\ \A i \in 1..Len(history[p]) :
                      history[p][i] = [role |-> rows[i].role, content |-> rows[i].content]

C15_Witness ==
    \E p \in Callers :
        /\ pc[p] = "invoke"
        /\ PriorMessages(p) = HistoryLimit
        /\ Len(chat_messages[p]) = HistoryLimit
        /\ Len(history[p]) = HistoryLimit - 1

\* A row that becomes a turn of the history.
IsTurn(m) == m.role \in {"user", "assistant"}

\* C16: of the loaded rows but the last, each user row is one user turn of
\* the history and each assistant row one assistant turn, with the row's
\* content; rows of any other role give nothing; the turns keep the rows'
\* order and there are as many turns as user and assistant rows.
C16_RolesConverted ==
    \A p \in Callers :
        pc[p] = "invoke" =>
            LET kept == SelectSeq(SubSeq(chat_messages[p], 1, Len(chat_messages[p]) - 1), IsTurn)
            IN  /\ Len(history[p]) = Len(kept)
                /\ \A i \in 1..Len(kept) :
                      /\ history[p][i].role = kept[i].role
                      /\ history[p][i].content = kept[i].content

C16_Witness ==
    \E p \in Callers :
        /\ pc[p] = "invoke"
        /\ Len(chat_messages[p]) = 3
        /\ \E i, j \in 1..2 : /\ ~IsTurn(chat_messages[p][i])
                               /\ IsTurn(chat_messages[p][j])
        /\ Len(history[p]) = 1

\* The rows request n wrote with the given role.
RowsOf(n, role) == {i \in 1..Len(log) : writer[i] = n /\ log[i].role = role}

\* Caller p's call ended in a rendering failure: its panic unwound it, or
\* ended the process while it assembled the prompt.
RenderingFailed(p) == pc[p] = "panicked" \/ (aborted /\ pc[p] = "build_prompt")

\* C17 as stated: a rendering failure aborts the process.
C17_ProcessAborts ==
    \A p \in Callers : RenderingFailed(p) => aborted

\* C17, amended: a rendering failure is fatal to the call. The call has
\* written its user turn, never reaches the engine, returns no value and
\* writes no assistant row; unless the process has aborted, the session
\* lock is free of the call.
C17_RenderingFailureEndsCall ==
    \A p \in Callers :
        RenderingFailed(p) =>
            /\ result[p] = NoResult
            /\ history[p] = <<>>
            /\ ret[p] = NoResult
            /\ Cardinality(RowsOf(request[p], "user")) = 1
            /\ RowsOf(request[p], "assistant") = {}
            /\ ~aborted => send_lock # Some(p)

C17_Witness ==
    \E p, q \in Callers :
        /\ pc[p] = "panicked"
        /\ ~aborted
        /\ pc[q] = "save_result"
        /\ request[q] > request[p]

\* C18: there is no timeout and no cancellation. While the engine invocation
\* of caller p has not returned, p holds send_lock; p leaves the invocation
\* only by the engine's return; and every other caller stays where it is
\* before its step 2, or moves only to queue for the lock: it writes no row
\* and returns nothing.
C18_NoTimeout ==
    [][\A p \in Callers :
          pc[p] = "invoke" =>
             /\ send_lock = Some(p)
             /\ pc'[p] \in {"invoke", "save_result"}
             /\ pc'[p] = "invoke" =>
                   /\ send_lock' = Some(p)
                   /\ \A q \in Callers \ {p} :
                         /\ pc'[q] \in {pc[q], "lock"}
                         /\ ~InCritical(q)
                         /\ pc[q] = "lock" => pc'[q] = "lock" /\ ret'[q] = NoResult
                         /\ request'[q] = request[q] \/ request'[q] = 0
                   /\ \A i \in (Len(log) + 1)..Len(log') : writer'[i] = 0]_vars

C18_Witness ==
    \E p, q \in Callers :
        /\ pc[p] = "invoke"
        /\ pc[q] = "lock"
        /\ waiters = <<q>>
        /\ send_lock = Some(p)
        /\ ret[q] = NoResult
        /\ \E i \in 1..Len(log) : writer[i] = 0 /\ i > 1

\* C19 as stated: every call made eventually returns.
C19_EveryCallReturns ==
    \A p \in Callers : (pc[p] = "lock") ~> (pc[p] = "returned")

\* C19, amended: every call made eventually returns, success or failure,
\* unless a rendering failure ends it or the process; and a held session
\* lock is eventually free again unless the process has aborted.
C19_EveryCallReturnsOrPanics ==
    /\ \A p \in Callers :
          (pc[p] = "lock") ~> (pc[p] = "returned" \/ pc[p] = "panicked" \/ aborted)
    /\ (send_lock # None) ~> (send_lock = None \/ aborted)

C19_Witness ==
    \E p, q \in Callers :
        /\ pc[p] = "returned" /\ ret[p].tag = "Ok"
        /\ pc[q] = "returned" /\ ret[q].tag = "Err"
        /\ request[p] < request[q]
        /\ send_lock = None
        /\ waiters = <<>>

\* The places in the log of the rows of thread t, and its rows in insertion
\* order.
ThreadPlaces(t) == {i \in 1..Len(log) : log[i].thread_id = t}
ThreadLog(t) == SelectSeq(log, LAMBDA r : r.thread_id = t)

\* The calls on thread t that have written their user turn and not returned.
InFlight(t) ==
    {p \in Callers : /\ pc[p] \in {"build_prompt", "load_history", "invoke", "save_result"}
                     /\ args[p].thread_id = t}

\* C20: on a thread written only by the session's send_message, with no
\* storage failure and no rendering failure, the rows alternate user,
\* assistant, ... from a user row on; with no call in flight on the thread
\* it holds two rows for each request that wrote to it; with a call in
\* flight there is one such call and its user row is the last row, the one
\* row without an answer.
C20_TurnsAlternate ==
    \A t \in Threads :
        LET rows == ThreadLog(t)
            finished == {writer[i] : i \in ThreadPlaces(t)} \ {request[p] : p \in InFlight(t)}
        IN  /\ \A i \in 1..Len(rows) :
                  rows[i].role = IF i % 2 = 1 THEN "user" ELSE "assistant"
            /\ InFlight(t) = {} => Len(rows) = 2 * Cardinality(finished)
            /\ InFlight(t) # {} =>
                  /\ Cardinality(InFlight(t)) = 1
                  /\ Len(rows) = 2 * Cardinality(finished) + 1
                  /\ \A p \in InFlight(t) : rows[Len(rows)].id = saved_id[p]

C20_Witness ==
    \E t \in Threads, q \in Callers :
        /\ Len(ThreadLog(t)) = 3
        /\ ThreadLog(t)[2].content = error_text("rate limited")
        /\ InFlight(t) # {}
        /\ pc[q] = "lock"

====
